---- MODULE Spec2Model ----
(***************************************************************************)
(* Model of the fuel optimization engine of AIRLINE-FUEL-OPTIMIZER         *)
(* (src/src/optimization_engine.py, src/src/weather_service.py,            *)
(* src/src/models.py).                                                     *)
(*                                                                         *)
(* Python floats are modelled in fixed point, every quantity an integer    *)
(* count of a named unit:                                                  *)
(*   fuel, burn rate        hundredths of a kg (kg/h)     suffix _c        *)
(*   distance               hundredths of a nautical mile                 *)
(*   speeds                 hundredths of a knot                           *)
(*   flight time            thousandths of an hour                         *)
(*   factors, confidence    ten-thousandths                                *)
(*   values after round(x, 1): tenths                                      *)
(*   angles, sines, cosines hundred-millionths (radians)                   *)
(* Divisions round to the nearest unit.  All intermediate products stay    *)
(* below 2^31.                                                             *)
(***************************************************************************)
EXTENDS Integers, Sequences, FiniteSets, TLC

\* ------------------------------------------------------------------------
\* Bounds of the model
\* ------------------------------------------------------------------------

\* longest route (number of waypoints) of a submitted flight plan
MaxRoute == 2

\* ------------------------------------------------------------------------
\* Fixed-point arithmetic
\* ------------------------------------------------------------------------

Abs(x) == IF x < 0 THEN -x ELSE x

Sign(x) == IF x < 0 THEN -1 ELSE 1

Min(a, b) == IF a < b THEN a ELSE b

\* a / b for b # 0, rounded to the nearest integer (float division)
RDiv(a, b) == Sign(a) * Sign(b) * ((Abs(a) + (Abs(b) \div 2)) \div Abs(b))

\* a / b truncated toward zero
TDiv(a, b) == Sign(a) * Sign(b) * (Abs(a) \div Abs(b))

\* a * b / c for c > 0, rounded, without forming a * b
MulDiv(a, b, c) ==
    Sign(a) * Sign(b) *
        (((Abs(a) \div c) * Abs(b)) + RDiv((Abs(a) % c) * Abs(b), c))

\* round(x, 1) of a value held in hundredths: the result is in tenths,
\* halves go to the even neighbour
Round1(x_c) ==
    LET n == Abs(x_c)
        q == n \div 10
        r == n % 10
        up == (r > 5) \/ (r = 5 /\ q % 2 = 1)
    IN  Sign(x_c) * (IF up THEN q + 1 ELSE q)

\* 10000 * s / o for o # 0, rounded; large operands are scaled down together
RECURSIVE Ratio1e4(_, _)
Ratio1e4(s, o) ==
    IF Abs(s) <= 100000
    THEN RDiv(s * 10000, o)
    ELSE IF TDiv(o, 10) = 0
         THEN Sign(s) * Sign(o) * 100000000
         ELSE Ratio1e4(TDiv(s, 10), TDiv(o, 10))

\* a * b / 10^8, rounded, for |a|, |b| < 4 * 10^8, without forming a * b
Mul8(a, b) ==
    LET a1 == Abs(a) \div 10000
        a0 == Abs(a) % 10000
        b1 == Abs(b) \div 10000
        b0 == Abs(b) % 10000
    IN  Sign(a) * Sign(b) *
            ((a1 * b1)
             + RDiv((a1 * b0) + (a0 * b1) + RDiv(a0 * b0, 10000), 10000))

RECURSIVE SumSeq(_)
SumSeq(s) == IF s = <<>> THEN 0 ELSE Head(s) + SumSeq(Tail(s))

\* ------------------------------------------------------------------------
\* Data: waypoints, aircraft table, weather readings, flight plans
\* ------------------------------------------------------------------------

\* Waypoint latitudes, ten-thousandths of a degree.  NPX is a waypoint a
\* caller may try to construct with latitude 95.0
Latitude ==
    [JFK |-> 406413, LAX |-> 339416, MIA |-> 257959, NPX |-> 950000,
     TEST |-> 400000, SYD |-> -339399, EQ0 |-> 0, NP |-> 900000,
     SP |-> -900000, E180 |-> 0, W180 |-> 0]

\* Waypoint longitudes, ten-thousandths of a degree
Longitude ==
    [JFK |-> -737781, LAX |-> -1184085, MIA |-> -802870, NPX |-> 0,
     TEST |-> -750000, SYD |-> 1511753, EQ0 |-> 0, NP |-> 0,
     SP |-> 0, E180 |-> 1800000, W180 |-> -1800000]

\* the waypoints a caller may try to construct
WaypointInputs == {"JFK", "LAX", "MIA", "NPX"}

\* Waypoint(...) is constructed: Field(ge=-90, le=90), Field(ge=-180, le=180)
WaypointAccepted(w) ==
    /\ -900000 <= Latitude[w] /\ Latitude[w] <= 900000
    /\ -1800000 <= Longitude[w] /\ Longitude[w] <= 1800000

\* the waypoints that exist
WaypointNames == {w \in WaypointInputs : WaypointAccepted(w)}

\* the points distances are measured between: the waypoints, and points on
\* the edges of the accepted coordinate ranges
GeoPoints == {w \in DOMAIN Latitude : WaypointAccepted(w)}

\* class attribute AIRCRAFT_DB (fuel_burn_rate_base in kg/h, speeds in knots)
AIRCRAFT_DB ==
    [B737_800 |-> [optimal_cruise_altitude |-> 36000, cruise_speed |-> 450,
                   fuel_burn_rate_base |-> 2400, weight_empty |-> 42000],
     A320     |-> [optimal_cruise_altitude |-> 35000, cruise_speed |-> 447,
                   fuel_burn_rate_base |-> 2300, weight_empty |-> 42400],
     B777_300 |-> [optimal_cruise_altitude |-> 38000, cruise_speed |-> 490,
                   fuel_burn_rate_base |-> 7500, weight_empty |-> 167800]]

\* aircraft_type strings a plan may carry; "MD-11" is not a key of the table
AircraftTypes == {"B737_800", "A320", "B777_300", "MD_11"}

\* the lookup falling back to the A320 profile
AircraftOf_a320(aircraft_type) ==
    IF aircraft_type \in DOMAIN AIRCRAFT_DB
    THEN AIRCRAFT_DB[aircraft_type]
    ELSE AIRCRAFT_DB["A320"]

\* AIRCRAFT_DB.get(aircraft_type, AIRCRAFT_DB["B737-800"])
AircraftOf(aircraft_type) ==
    IF aircraft_type \in DOMAIN AIRCRAFT_DB
    THEN AIRCRAFT_DB[aircraft_type]
    ELSE AIRCRAFT_DB["B737_800"]

CruiseAltitudes == {28000, 35000, 36000, 38000}

PassengerCounts == {150}

CargoWeights == {5000, -20000}

\* the sequences of at most n distinct elements of S
RECURSIVE SeqsUpTo(_, _)
SeqsUpTo(S, n) ==
    IF n = 0 THEN {<<>>}
    ELSE LET shorter == SeqsUpTo(S, n - 1)
         IN  shorter \cup
             {Append(s, x) : s \in {t \in shorter : Len(t) = n - 1},
                             x \in S}

\* routes of a flight plan: no waypoint is visited twice
Routes ==
    {r \in SeqsUpTo(WaypointNames, MaxRoute) :
        \A i, j \in 1..Len(r) : r[i] = r[j] => i = j}

FlightPlans ==
    [aircraft_type : AircraftTypes,
     route_waypoints : Routes,
     cruise_altitude : CruiseAltitudes,
     passenger_count : PassengerCounts,
     cargo_weight : CargoWeights]

\* (wind_speed, wind_direction) of the readings the weather collaborator may
\* give: one of the mock generator's westerly readings, an easterly one, and
\* a headwind of twice the cruise speed of the B737-800
WindReadings ==
    {[wind_speed |-> 100, wind_direction |-> 270],
     [wind_speed |-> 120, wind_direction |-> 90],
     [wind_speed |-> 900, wind_direction |-> 270]}

NoReading == [wind_speed |-> -1, wind_direction |-> -1]

\* fetch_weather_for_waypoint: a reading located at the waypoint, or None
fetch_weather_for_waypoint(waypoint) ==
    {[location |-> waypoint, wind_speed |-> w.wind_speed,
      wind_direction |-> w.wind_direction] : w \in WindReadings}
    \cup {NoReading}

\* fetch_weather_for_route: one fetch per waypoint, in order; None is skipped
RECURSIVE fetch_weather_for_route(_)
fetch_weather_for_route(waypoints) ==
    IF waypoints = <<>> THEN {<<>>}
    ELSE {IF w = NoReading THEN rest ELSE <<w>> \o rest :
            w \in fetch_weather_for_waypoint(Head(waypoints)),
            rest \in fetch_weather_for_route(Tail(waypoints))}

\* ------------------------------------------------------------------------
\* Geodesy
\* ------------------------------------------------------------------------

\* pi in hundred-millionths
Pi8 == 314159265

HalfPi8 == RDiv(Pi8, 2)

\* math.radians of an angle in ten-thousandths of a degree
math_radians(deg4) == Mul8(deg4 * 100, 174532925)

\* term - term * x2 / (k (k+1)) + ... : n terms of the sine or cosine series
RECURSIVE TrigSeries(_, _, _, _)
TrigSeries(term, x2, k, n) ==
    IF n = 0 \/ term = 0 THEN 0
    ELSE term + TrigSeries(-RDiv(Mul8(term, x2), k * (k + 1)), x2, k + 2, n - 1)

\* math.sin for |x| <= pi
math_sin(x) ==
    LET r == IF Abs(x) > HalfPi8 THEN Pi8 - Abs(x) ELSE Abs(x)
    IN  Sign(x) * TrigSeries(r, Mul8(r, r), 2, 10)

\* math.cos for |x| <= pi / 2
math_cos(x) == TrigSeries(100000000, Mul8(x, x), 1, 10)

\* the least r in (lo, hi] with r * r >= a
RECURSIVE SqrtSearch(_, _, _)
SqrtSearch(a, lo, hi) ==
    IF hi - lo <= 1 THEN hi
    ELSE LET mid == (lo + hi) \div 2
         IN  IF Mul8(mid, mid) >= a THEN SqrtSearch(a, lo, mid)
             ELSE SqrtSearch(a, mid, hi)

\* math.sqrt for 0 <= a <= 1
math_sqrt(a) == IF a <= 0 THEN 0 ELSE SqrtSearch(a, 0, 100000000)

\* the least t in (lo, hi] with sin(t) >= y
RECURSIVE AsinSearch(_, _, _)
AsinSearch(y, lo, hi) ==
    IF hi - lo <= 1 THEN hi
    ELSE LET mid == (lo + hi) \div 2
         IN  IF math_sin(mid) >= y THEN AsinSearch(y, lo, mid)
             ELSE AsinSearch(y, mid, hi)

\* math.asin for 0 <= y <= 1
math_asin(y) == IF y <= 0 THEN 0 ELSE AsinSearch(y, 0, HalfPi8)

\* a = sin(dlat/2)**2 + cos(lat1) * cos(lat1) * sin(dlon/2)**2
haversine_a_lat1(lat1, lon1, lat2, lon2) ==
    LET sin_dlat == math_sin(RDiv(lat2 - lat1, 2))
        sin_dlon == math_sin(RDiv(lon2 - lon1, 2))
    IN  Mul8(sin_dlat, sin_dlat)
        + Mul8(Mul8(math_cos(lat1), math_cos(lat1)), Mul8(sin_dlon, sin_dlon))

\* a = math.sin(dlat/2)**2 + math.cos(lat1) * math.cos(lat2) * math.sin(dlon/2)**2
haversine_a(lat1, lon1, lat2, lon2) ==
    LET sin_dlat == math_sin(RDiv(lat2 - lat1, 2))
        sin_dlon == math_sin(RDiv(lon2 - lon1, 2))
    IN  Mul8(sin_dlat, sin_dlat)
        + Mul8(Mul8(math_cos(lat1), math_cos(lat2)), Mul8(sin_dlon, sin_dlon))

\* Earth radius, thousandths of a nautical mile: r = 3440.065
EarthRadius == 3440065

\* the distance with the Earth radius in kilometres
calculate_distance_km(point1, point2) ==
    LET a == haversine_a(math_radians(Latitude[point1]),
                         math_radians(Longitude[point1]),
                         math_radians(Latitude[point2]),
                         math_radians(Longitude[point2]))
        c == 2 * math_asin(math_sqrt(a))
    IN  RDiv(Mul8(c, 6371000), 10)

\* haversine distance of two waypoints, hundredths of a nautical mile
calculate_distance(point1, point2) ==
    LET a == haversine_a(math_radians(Latitude[point1]),
                         math_radians(Longitude[point1]),
                         math_radians(Latitude[point2]),
                         math_radians(Longitude[point2]))
        c == 2 * math_asin(math_sqrt(a))
    IN  RDiv(Mul8(c, EarthRadius), 10)

\* calculate_distance of every pair of points, computed once
DistanceTable ==
    [point1 \in GeoPoints |-> [point2 \in GeoPoints |->
        calculate_distance(point1, point2)]]

\* the loop stopping one leg early, range(len(waypoints) - 2)
RECURSIVE calculate_route_distance_short(_)
calculate_route_distance_short(waypoints) ==
    IF Len(waypoints) < 3 THEN 0
    ELSE DistanceTable[waypoints[1]][waypoints[2]]
         + calculate_route_distance_short(Tail(waypoints))

RECURSIVE calculate_route_distance(_)
calculate_route_distance(waypoints) ==
    IF Len(waypoints) < 2 THEN 0
    ELSE DistanceTable[waypoints[1]][waypoints[2]]
         + calculate_route_distance(Tail(waypoints))

\* ------------------------------------------------------------------------
\* Fuel estimate
\* ------------------------------------------------------------------------

\* the factor computed from the signed deviation
calculate_altitude_factor_signed(altitude, optimal_altitude) ==
    10000 + RDiv(3 * (altitude - optimal_altitude), 40)

\* the factor decreasing with the deviation
calculate_altitude_factor_minus(altitude, optimal_altitude) ==
    LET deviation == Abs(altitude - optimal_altitude)
    IN  10000 - RDiv(3 * deviation, 40)

\* 1.0 + (deviation / 2000) * 0.015, ten-thousandths
calculate_altitude_factor(altitude, optimal_altitude) ==
    LET deviation == Abs(altitude - optimal_altitude)
    IN  10000 + RDiv(3 * deviation, 40)

\* wind_speed * 0.5, negated when wind_direction > 180; hundredths of a knot
wind_component(weather) ==
    IF weather.wind_direction > 180
    THEN -(50 * weather.wind_speed)
    ELSE 50 * weather.wind_speed

\* the loop of _calculate_wind_impact: reading i (0-based) is added only
\* when i < len(route_waypoints) - 1
RECURSIVE total_impact(_, _, _)
total_impact(weather_data, i, n_waypoints) ==
    IF weather_data = <<>> THEN 0
    ELSE (IF i < n_waypoints - 1 THEN wind_component(Head(weather_data)) ELSE 0)
         + total_impact(Tail(weather_data), i + 1, n_waypoints)

\* _calculate_wind_impact, hundredths of a knot
calculate_wind_impact(flight_plan, weather_data) ==
    IF weather_data = <<>> THEN 0
    ELSE RDiv(total_impact(weather_data, 0, Len(flight_plan.route_waypoints)),
              Len(weather_data))

\* ground_speed = aircraft.cruise_speed + avg_wind_impact, hundredths of a knot
ground_speed_of(flight_plan, weather_data) ==
    (AircraftOf(flight_plan.aircraft_type).cruise_speed * 100)
    + calculate_wind_impact(flight_plan, weather_data)

\* distance / ground_speed raises ZeroDivisionError
EstimateRaises(flight_plan, weather_data) ==
    ground_speed_of(flight_plan, weather_data) = 0

\* the reserve without the 30 minutes of holding
reserve_of_no_holding(total_fuel, fuel_burn_rate) == RDiv(total_fuel, 20)

\* reserve_fuel = total_fuel * 0.05 + (fuel_burn_rate * 0.5)
reserve_of(total_fuel, fuel_burn_rate) ==
    RDiv(total_fuel, 20) + RDiv(fuel_burn_rate, 2)

\* estimate_fuel_consumption when it returns
estimate_fuel_consumption(flight_plan, weather_data, altitude) ==
    LET aircraft == AircraftOf(flight_plan.aircraft_type)
        distance == calculate_route_distance(flight_plan.route_waypoints)
        altitude_factor ==
            calculate_altitude_factor(altitude, aircraft.optimal_cruise_altitude)
        rate_alt == RDiv(aircraft.fuel_burn_rate_base * 10 * altitude_factor, 1000)
        payload == flight_plan.cargo_weight + (flight_plan.passenger_count * 90)
        weight_factor == 10000 + RDiv(1500 * payload, aircraft.weight_empty)
        fuel_burn_rate == MulDiv(rate_alt, weight_factor, 10000)
        avg_wind_impact == calculate_wind_impact(flight_plan, weather_data)
        ground_speed == ground_speed_of(flight_plan, weather_data)
        flight_time_hours == RDiv(distance * 1000, ground_speed)
        total_fuel == MulDiv(flight_time_hours, fuel_burn_rate, 1000)
        reserve_fuel == reserve_of(total_fuel, fuel_burn_rate)
        total_fuel_with_reserves == total_fuel + reserve_fuel
    IN  [distance_nm |-> Round1(distance),
         flight_time_hours |-> flight_time_hours,
         fuel_burn_rate |-> Round1(fuel_burn_rate),
         cruise_fuel |-> Round1(total_fuel),
         reserve_fuel |-> Round1(reserve_fuel),
         total_fuel |-> Round1(total_fuel_with_reserves),
         altitude_factor |-> altitude_factor,
         weight_factor |-> weight_factor,
         payload |-> payload,
         avg_wind_impact |-> Round1(avg_wind_impact),
         ground_speed |-> Round1(ground_speed)]

\* ------------------------------------------------------------------------
\* Jet stream (weather_service.get_jet_stream_info)
\* ------------------------------------------------------------------------

RECURSIVE SumLatitude(_)
SumLatitude(waypoints) ==
    IF waypoints = <<>> THEN 0
    ELSE Latitude[Head(waypoints)] + SumLatitude(Tail(waypoints))

\* sum(...) / len(waypoints) raises ZeroDivisionError: the altitude test
\* passes and the route is empty
JetStreamRaises(waypoints, altitude) ==
    (30000 <= altitude /\ altitude <= 42000) /\ Len(waypoints) = 0

\* the jet stream test with both ranges exclusive
get_jet_stream_info_exclusive(waypoints, altitude) ==
    IF /\ 30000 < altitude /\ altitude < 42000
       /\ 300000 * Len(waypoints) < Abs(SumLatitude(waypoints))
       /\ Abs(SumLatitude(waypoints)) < 600000 * Len(waypoints)
    THEN [present |-> TRUE, strength |-> "strong", direction |-> "westerly",
          benefit |-> "Favorable for westbound flights at this altitude"]
    ELSE [present |-> FALSE, strength |-> "none", direction |-> "None",
          benefit |-> "None"]

\* get_jet_stream_info when it returns; 30 <= abs(avg_latitude) <= 60 is
\* compared after multiplying through by len(waypoints)
get_jet_stream_info(waypoints, altitude) ==
    IF /\ 30000 <= altitude /\ altitude <= 42000
       /\ 300000 * Len(waypoints) <= Abs(SumLatitude(waypoints))
       /\ Abs(SumLatitude(waypoints)) <= 600000 * Len(waypoints)
    THEN [present |-> TRUE, strength |-> "strong", direction |-> "westerly",
          benefit |-> "Favorable for westbound flights at this altitude"]
    ELSE [present |-> FALSE, strength |-> "none", direction |-> "None",
          benefit |-> "None"]

\* ------------------------------------------------------------------------
\* optimize_flight
\* ------------------------------------------------------------------------

\* altitude_options without the candidate 36000
altitude_options_short == <<32000, 34000, 38000, 40000>>

altitude_options == <<32000, 34000, 36000, 38000, 40000>>

\* the sweep keeping the larger total
Improves_gt(candidate_fuel, best_fuel) == candidate_fuel > best_fuel

\* the sweep replacing the best on a tie
Improves_le(candidate_fuel, best_fuel) == candidate_fuel <= best_fuel

\* the sweep taking every candidate
Improves_always(candidate_fuel, best_fuel) == TRUE

\* the comparison of the sweep: a candidate replaces the best
Improves(candidate_fuel, best_fuel) == candidate_fuel < best_fuel

\* the search seeded with the aircraft's optimal altitude
seed_altitude_optimal(fp) == AircraftOf(fp.aircraft_type).optimal_cruise_altitude

\* best_altitude = flight_plan.cruise_altitude, the seed of the search
seed_altitude(fp) == fp.cruise_altitude

\* the recommendation type switching above 4000 only
rec_type_of_gt(altitude_change) ==
    IF altitude_change > 4000
    THEN "ALTITUDE_OPTIMIZATION"
    ELSE "ROUTE_MODIFICATION"

\* altitude_change >= 4000 selects the recommendation type
rec_type_of(altitude_change) ==
    IF altitude_change >= 4000
    THEN "ALTITUDE_OPTIMIZATION"
    ELSE "ROUTE_MODIFICATION"

time_impact_of(altitude_change) ==
    IF altitude_change >= 4000 THEN 2 ELSE 0

\* savings_percentage, hundredths of a percent (original_fuel # 0)
savings_percentage_of(fuel_savings, original) == Ratio1e4(fuel_savings, original)

\* min(0.95, 0.70 + savings_percentage / 100), ten-thousandths
confidence_of(savings_percentage) == Min(9500, 7000 + savings_percentage)

\* sep.join(parts), the string as the sequence of its pieces
RECURSIVE join(_, _)
join(sep, parts) ==
    IF Len(parts) <= 1 THEN parts
    ELSE <<Head(parts), sep>> \o join(sep, Tail(parts))

\* the rationale with the jet stream clause put first
rationale_of_jet_first(altitude_change, jet, calc) ==
    LET rationale_parts ==
            (IF jet.present THEN <<"jet_stream">> ELSE <<>>)
            \o (IF altitude_change >= 2000 THEN <<"altitude_change">> ELSE <<>>)
            \o (IF calc.avg_wind_impact > 0 THEN <<"tailwind">> ELSE <<>>)
    IN  IF rationale_parts # <<>> THEN join(". ", rationale_parts)
        ELSE <<"Standard optimization applied">>

\* lines 230-246; a clause is named by its condition
rationale_of(altitude_change, jet, calc) ==
    LET rationale_parts ==
            (IF altitude_change >= 2000 THEN <<"altitude_change">> ELSE <<>>)
            \o (IF jet.present THEN <<"jet_stream">> ELSE <<>>)
            \o (IF calc.avg_wind_impact > 0 THEN <<"tailwind">> ELSE <<>>)
    IN  IF rationale_parts # <<>> THEN join(". ", rationale_parts)
        ELSE <<"Standard optimization applied">>

RECURSIVE SumWindSpeed(_)
SumWindSpeed(wd) ==
    IF wd = <<>> THEN 0 ELSE Head(wd).wind_speed + SumWindSpeed(Tail(wd))

\* the strong wind test passing at 100 knots
StrongWind_ge(wd) == wd # <<>> /\ SumWindSpeed(wd) >= 100 * Len(wd)

\* avg_wind > 100, with avg_wind = sum / len, or 0 for no readings
StrongWind(wd) == wd # <<>> /\ SumWindSpeed(wd) > 100 * Len(wd)

weather_factors_of(jet, wd) ==
    (IF jet.present THEN <<"jet_stream">> ELSE <<>>)
    \o (IF StrongWind(wd) THEN <<"strong_winds">> ELSE <<>>)

\* the tail of optimize_flight (lines 219-278) raises: division by a zero
\* original_fuel, or OptimizationResult rejects confidence_score outside [0, 1]
ClassifyError(original, optimized) ==
    IF original = 0 THEN "ZeroDivisionError"
    ELSE LET confidence ==
                 confidence_of(savings_percentage_of(original - optimized, original))
         IN  IF confidence < 0 \/ confidence > 10000
             THEN "ValidationError"
             ELSE "none"

\* the OptimizationResult built when the tail does not raise
OptimizationResult(fp, wd, original, best, jet, calc) ==
    LET optimized == calc.total_fuel
        altitude_change == Abs(best - fp.cruise_altitude)
        fuel_savings == original - optimized
        savings_percentage == savings_percentage_of(fuel_savings, original)
    IN  [original_fuel |-> original,
         optimized_fuel |-> optimized,
         fuel_savings |-> fuel_savings,
         savings_percentage |-> savings_percentage,
         time_impact |-> time_impact_of(altitude_change),
         confidence_score |-> confidence_of(savings_percentage),
         recommendation_type |-> rec_type_of(altitude_change),
         optimized_altitude |-> best,
         rationale |-> rationale_of(altitude_change, jet, calc),
         weather_factors |-> weather_factors_of(jet, wd)]

\* the loop of lines 199-203 from candidate i on
RECURSIVE sweep(_, _, _, _, _)
sweep(fp, wd, i, best, best_fuel) ==
    IF i > Len(altitude_options)
    THEN [best_altitude |-> best, best_altitude_fuel |-> best_fuel]
    ELSE LET fuel == estimate_fuel_consumption(fp, wd, altitude_options[i]).total_fuel
         IN  IF Improves(fuel, best_fuel)
             THEN sweep(fp, wd, i + 1, altitude_options[i], fuel)
             ELSE sweep(fp, wd, i + 1, best, best_fuel)

\* optimize_flight run alone on the readings wd: the exception it raises
\* ("none" if none) and the result it returns
optimize_flight(fp, wd) ==
    IF EstimateRaises(fp, wd)
    THEN [error |-> "ZeroDivisionError", result |-> [none |-> TRUE]]
    ELSE LET original ==
                 estimate_fuel_consumption(fp, wd, fp.cruise_altitude).total_fuel
             best == sweep(fp, wd, 1, seed_altitude(fp), original).best_altitude
         IN  IF JetStreamRaises(fp.route_waypoints, best)
             THEN [error |-> "ZeroDivisionError", result |-> [none |-> TRUE]]
             ELSE LET jet == get_jet_stream_info(fp.route_waypoints, best)
                      calc == estimate_fuel_consumption(fp, wd, best)
                      e == ClassifyError(original, calc.total_fuel)
                  IN  IF e # "none"
                      THEN [error |-> e, result |-> [none |-> TRUE]]
                      ELSE [error |-> "none",
                            result |-> OptimizationResult(fp, wd, original, best,
                                                          jet, calc)]

\* ------------------------------------------------------------------------
\* State
\* ------------------------------------------------------------------------

VARIABLES
    pc,                  \* position of the optimize_flight call
    flight_plan,         \* argument of the call
    weather_data,        \* list fetched from the weather service
    original_fuel_calc,  \* estimate at the requested altitude
    best_altitude,
    best_altitude_fuel,
    alt_i,               \* index of the next candidate of altitude_options
    jet_stream,
    optimized_fuel_calc, \* estimate at best_altitude
    result,              \* the returned OptimizationResult
    error,               \* the exception raised, "none" if none
    fetches              \* calls of fetch_weather_for_route in this call

\* two calls of calculate_distance, on a pair of points and on the pair
\* swapped
VARIABLES
    geo_pc,              \* "idle", "forward", "backward" or "done"
    geo_point1,
    geo_point2,
    distance_12,         \* calculate_distance(geo_point1, geo_point2)
    distance_21          \* calculate_distance(geo_point2, geo_point1)

geo_vars == <<geo_pc, geo_point1, geo_point2, distance_12, distance_21>>

\* one call of fetch_weather_for_route of the mock weather service
VARIABLES
    ws_pc,               \* "idle", "loop" or "returned"
    ws_waypoints,        \* argument of the call
    ws_index,            \* index of the next waypoint of the for loop
    ws_weather_data      \* local list weather_data

ws_vars == <<ws_pc, ws_waypoints, ws_index, ws_weather_data>>

\* two calls of optimize_flight on one engine, their steps interleaved
VARIABLES
    frames,              \* per call: its position and its local variables
    best,                \* per slot: best_altitude and best_altitude_fuel
    plans,               \* per call: the FlightPlan object it was given
    submitted,           \* per call: the plan as the caller built it
    aircraft_db          \* the class attribute AIRCRAFT_DB

pair_vars == <<frames, best, plans, submitted, aircraft_db>>

engine_vars == <<pc, flight_plan, weather_data, original_fuel_calc,
                 best_altitude, best_altitude_fuel, alt_i, jet_stream,
                 optimized_fuel_calc, result, error, fetches>>

\* the jet stream analysis and the texts built from it
VARIABLES
    jet_pc,              \* "idle", "analyze", "texts", "done" or "raised"
    jet_waypoints,       \* route given to get_jet_stream_info
    jet_altitude,        \* altitude given to get_jet_stream_info
    jet_info,            \* the dict get_jet_stream_info returns
    jet_rationale,       \* rationale built from jet_info
    jet_weather_factors  \* weather_factors built from jet_info

jet_vars == <<jet_pc, jet_waypoints, jet_altitude, jet_info, jet_rationale,
              jet_weather_factors>>

\* one StrandsOrchestrator and its caller
VARIABLES
    wf_history,          \* self.workflow_history: entries [state, status]
    wf_pc,               \* "idle", "free", "step", "returned" or "raised"
    wf_step,             \* process_single_flight: number of the next step
    wf_output,           \* output of the last execute_workflow_step
    wf_last_call,        \* the last call made on the orchestrator
    wf_calls,            \* calls made before process_single_flight
    wf_status            \* workflow_status returned by process_single_flight

wf_vars == <<wf_history, wf_pc, wf_step, wf_output, wf_last_call, wf_calls,
             wf_status>>

\* one MCPIntegration and its callers
VARIABLES
    mcp_recommendation,  \* the recommendation created last, or NoValue
    mcp_sent,            \* integer priority of every MCPMessage sent
    mcp_message_history, \* self.message_history: entries [priority, status]
    mcp_publish_calls,   \* calls of publish_to_operations made
    mcp_last_call        \* the last call made on the integration layer

mcp_vars == <<mcp_recommendation, mcp_sent, mcp_message_history,
              mcp_publish_calls, mcp_last_call>>

\* one call of run_batch_optimization
VARIABLES
    batch_pc,            \* "idle", "loop", "report", "returned" or "raised"
    batch_flights,       \* the rows load_flight_data returned
    batch_next,          \* position of the row the loop takes next
    batch_results,       \* results: positions of the rows appended
    batch_logged,        \* positions of the rows logger.error reported
    batch_report,        \* the report returned, or NoValue
    batch_error          \* the exception that left run_batch_optimization

batch_vars == <<batch_pc, batch_flights, batch_next, batch_results,
                batch_logged, batch_report, batch_error>>

\* the variables the engine's call does not touch
aux_vars == <<geo_vars, ws_vars, pair_vars, jet_vars, wf_vars, mcp_vars,
              batch_vars>>

\* the variables the distance measurements do not touch
outside_geo == <<engine_vars, ws_vars, pair_vars, jet_vars, wf_vars,
                 mcp_vars, batch_vars>>

\* the variables the weather service's call does not touch
outside_ws == <<engine_vars, geo_vars, pair_vars, jet_vars, wf_vars,
                 mcp_vars, batch_vars>>

\* the variables the pair of calls does not touch
outside_pair == <<engine_vars, geo_vars, ws_vars, jet_vars, wf_vars,
                 mcp_vars, batch_vars>>

\* the variables the jet stream analysis does not touch
outside_jet == <<engine_vars, geo_vars, ws_vars, pair_vars, wf_vars,
                 mcp_vars, batch_vars>>

\* the variables the orchestrator and its caller do not touch
outside_wf == <<engine_vars, geo_vars, ws_vars, pair_vars, jet_vars,
                 mcp_vars, batch_vars>>

\* the variables the integration layer does not touch
outside_mcp == <<engine_vars, geo_vars, ws_vars, pair_vars, jet_vars, wf_vars,
                 batch_vars>>

\* the variables the batch run does not touch
outside_batch == <<engine_vars, geo_vars, ws_vars, pair_vars, jet_vars,
                   wf_vars, mcp_vars>>

vars == <<pc, flight_plan, weather_data, original_fuel_calc, best_altitude,
          best_altitude_fuel, alt_i, jet_stream, optimized_fuel_calc, result,
          error, fetches, aux_vars>>

NoValue == [none |-> TRUE]

\* a call of optimize_flight(fp) begins
Begin(fp) ==
    /\ pc = "fetch"
    /\ flight_plan = fp
    /\ weather_data = <<>>
    /\ original_fuel_calc = NoValue
    /\ best_altitude = 0
    /\ best_altitude_fuel = 0
    /\ alt_i = 1
    /\ jet_stream = NoValue
    /\ optimized_fuel_calc = NoValue
    /\ result = NoValue
    /\ error = "none"
    /\ fetches = 0

\* no distance is being measured
GeoIdle ==
    /\ geo_pc = "idle"
    /\ geo_point1 = "JFK"
    /\ geo_point2 = "JFK"
    /\ distance_12 = 0
    /\ distance_21 = 0

\* no call of the weather service is running
WeatherIdle ==
    /\ ws_pc = "idle"
    /\ ws_waypoints = <<>>
    /\ ws_index = 1
    /\ ws_weather_data = <<>>

\* the two concurrent calls
Calls == {1, 2}

\* the locals of a call that has not started
IdleFrame ==
    [pc |-> "idle", weather_data |-> <<>>, original_fuel_calc |-> NoValue,
     alt_i |-> 1, jet_stream |-> NoValue, optimized_fuel_calc |-> NoValue,
     result |-> NoValue, error |-> "none"]

NoBest == [altitude |-> 0, fuel |-> 0]

\* no pair of calls is running
PairIdle ==
    /\ frames = [c \in Calls |-> IdleFrame]
    /\ best = [c \in Calls |-> NoBest]
    /\ plans = [c \in Calls |-> NoValue]
    /\ submitted = [c \in Calls |-> NoValue]
    /\ aircraft_db = AIRCRAFT_DB

\* no jet stream analysis is running
JetIdle ==
    /\ jet_pc = "idle"
    /\ jet_waypoints = <<>>
    /\ jet_altitude = 0
    /\ jet_info = NoValue
    /\ jet_rationale = <<>>
    /\ jet_weather_factors = <<>>

\* no call has been made on the orchestrator
NoCall == [op |-> "none"]

\* no orchestrator is in use
WorkflowIdle ==
    /\ wf_history = <<>>
    /\ wf_pc = "idle"
    /\ wf_step = 1
    /\ wf_output = NoValue
    /\ wf_last_call = NoCall
    /\ wf_calls = 0
    /\ wf_status = NoValue

\* no integration layer is in use
McpIdle ==
    /\ mcp_recommendation = NoValue
    /\ mcp_sent = <<>>
    /\ mcp_message_history = <<>>
    /\ mcp_publish_calls = 0
    /\ mcp_last_call = NoCall

\* no batch is running
BatchIdle ==
    /\ batch_pc = "idle"
    /\ batch_flights = <<>>
    /\ batch_next = 1
    /\ batch_results = <<>>
    /\ batch_logged = <<>>
    /\ batch_report = NoValue
    /\ batch_error = "none"

AuxIdle ==
    /\ GeoIdle /\ WeatherIdle /\ PairIdle /\ JetIdle /\ WorkflowIdle
    /\ McpIdle /\ BatchIdle

OutsideGeoIdle ==
    /\ WeatherIdle /\ PairIdle /\ JetIdle /\ WorkflowIdle
    /\ McpIdle /\ BatchIdle

OutsideWeatherIdle ==
    /\ GeoIdle /\ PairIdle /\ JetIdle /\ WorkflowIdle
    /\ McpIdle /\ BatchIdle

OutsidePairIdle ==
    /\ GeoIdle /\ WeatherIdle /\ JetIdle /\ WorkflowIdle
    /\ McpIdle /\ BatchIdle

OutsideJetIdle ==
    /\ GeoIdle /\ WeatherIdle /\ PairIdle /\ WorkflowIdle
    /\ McpIdle /\ BatchIdle

OutsideWorkflowIdle ==
    /\ GeoIdle /\ WeatherIdle /\ PairIdle /\ JetIdle
    /\ McpIdle /\ BatchIdle

Init == (\E fp \in FlightPlans : Begin(fp)) /\ AuxIdle

Raise(e) ==
    /\ pc' = "raised"
    /\ error' = e

\* the readings fetched at line 184 and once more before the final estimate
FetchWeather_again ==
    /\ pc \in {"fetch", "final"}
    /\ fetches < 2
    /\ \E wd \in fetch_weather_for_route(flight_plan.route_waypoints) :
           weather_data' = wd
    /\ fetches' = fetches + 1
    /\ pc' = IF pc = "fetch" THEN "original" ELSE pc
    /\ UNCHANGED <<flight_plan, original_fuel_calc, best_altitude,
                   best_altitude_fuel, alt_i, jet_stream, optimized_fuel_calc,
                   result, error>>
    /\ UNCHANGED aux_vars

\* line 184
FetchWeather ==
    /\ pc = "fetch"
    /\ \E wd \in fetch_weather_for_route(flight_plan.route_waypoints) :
           weather_data' = wd
    /\ fetches' = fetches + 1
    /\ pc' = "original"
    /\ UNCHANGED <<flight_plan, original_fuel_calc, best_altitude,
                   best_altitude_fuel, alt_i, jet_stream, optimized_fuel_calc,
                   result, error>>
    /\ UNCHANGED aux_vars

\* lines 187-197
EstimateOriginal ==
    /\ pc = "original"
    /\ IF EstimateRaises(flight_plan, weather_data)
       THEN /\ Raise("ZeroDivisionError")
            /\ UNCHANGED <<original_fuel_calc, best_altitude, best_altitude_fuel>>
       ELSE LET calc == estimate_fuel_consumption(flight_plan, weather_data,
                                                  flight_plan.cruise_altitude)
            IN  /\ original_fuel_calc' = calc
                /\ best_altitude' = seed_altitude(flight_plan)
                /\ best_altitude_fuel' = calc.total_fuel
                /\ pc' = "sweep"
                /\ UNCHANGED error
    /\ UNCHANGED <<flight_plan, weather_data, alt_i, jet_stream,
                   optimized_fuel_calc, result, fetches>>
    /\ UNCHANGED aux_vars

\* lines 199-203, one iteration of the loop
SweepStep ==
    /\ pc = "sweep"
    /\ alt_i <= Len(altitude_options)
    /\ IF EstimateRaises(flight_plan, weather_data)
       THEN /\ Raise("ZeroDivisionError")
            /\ UNCHANGED <<best_altitude, best_altitude_fuel, alt_i>>
       ELSE LET alt == altitude_options[alt_i]
                fuel_calc == estimate_fuel_consumption(flight_plan, weather_data, alt)
            IN  /\ IF Improves(fuel_calc.total_fuel, best_altitude_fuel)
                   THEN /\ best_altitude' = alt
                        /\ best_altitude_fuel' = fuel_calc.total_fuel
                   ELSE UNCHANGED <<best_altitude, best_altitude_fuel>>
                /\ alt_i' = alt_i + 1
                /\ UNCHANGED <<pc, error>>
    /\ UNCHANGED <<flight_plan, weather_data, original_fuel_calc, jet_stream,
                   optimized_fuel_calc, result, fetches>>
    /\ UNCHANGED aux_vars

\* lines 206-209
JetStream ==
    /\ pc = "sweep"
    /\ alt_i > Len(altitude_options)
    /\ IF JetStreamRaises(flight_plan.route_waypoints, best_altitude)
       THEN /\ Raise("ZeroDivisionError")
            /\ UNCHANGED jet_stream
       ELSE /\ jet_stream' =
                   get_jet_stream_info(flight_plan.route_waypoints, best_altitude)
            /\ pc' = "final"
            /\ UNCHANGED error
    /\ UNCHANGED <<flight_plan, weather_data, original_fuel_calc, best_altitude,
                   best_altitude_fuel, alt_i, optimized_fuel_calc, result, fetches>>
    /\ UNCHANGED aux_vars

\* lines 212-217
EstimateOptimized ==
    /\ pc = "final"
    /\ IF EstimateRaises(flight_plan, weather_data)
       THEN /\ Raise("ZeroDivisionError")
            /\ UNCHANGED optimized_fuel_calc
       ELSE /\ optimized_fuel_calc' =
                   estimate_fuel_consumption(flight_plan, weather_data, best_altitude)
            /\ pc' = "classify"
            /\ UNCHANGED error
    /\ UNCHANGED <<flight_plan, weather_data, original_fuel_calc, best_altitude,
                   best_altitude_fuel, alt_i, jet_stream, result, fetches>>
    /\ UNCHANGED aux_vars

\* lines 219-278
Classify ==
    /\ pc = "classify"
    /\ LET original == original_fuel_calc.total_fuel
           e == ClassifyError(original, optimized_fuel_calc.total_fuel)
       IN  IF e # "none"
           THEN /\ Raise(e)
                /\ UNCHANGED result
           ELSE /\ result' = OptimizationResult(flight_plan, weather_data, original,
                                                best_altitude, jet_stream,
                                                optimized_fuel_calc)
                /\ pc' = "returned"
                /\ UNCHANGED error
    /\ UNCHANGED <<flight_plan, weather_data, original_fuel_calc, best_altitude,
                   best_altitude_fuel, alt_i, jet_stream, optimized_fuel_calc,
                   fetches>>
    /\ UNCHANGED aux_vars



Next ==
    \/ FetchWeather
    \/ EstimateOriginal
    \/ SweepStep
    \/ JetStream
    \/ EstimateOptimized
    \/ Classify

Spec == Init /\ [][Next]_vars

\* ------------------------------------------------------------------------
\* Distances measured both ways
\* ------------------------------------------------------------------------

\* no call of optimize_flight is running
EngineIdle ==
    /\ pc = "idle"
    /\ flight_plan = NoValue
    /\ weather_data = <<>>
    /\ original_fuel_calc = NoValue
    /\ best_altitude = 0
    /\ best_altitude_fuel = 0
    /\ alt_i = 1
    /\ jet_stream = NoValue
    /\ optimized_fuel_calc = NoValue
    /\ result = NoValue
    /\ error = "none"
    /\ fetches = 0

GeoInit ==
    /\ EngineIdle
    /\ OutsideGeoIdle
    /\ geo_pc = "forward"
    /\ geo_point1 \in GeoPoints
    /\ geo_point2 \in GeoPoints
    /\ distance_12 = 0
    /\ distance_21 = 0

\* distance = engine.calculate_distance(geo_point1, geo_point2)
MeasureForward ==
    /\ geo_pc = "forward"
    /\ distance_12' = calculate_distance(geo_point1, geo_point2)
    /\ geo_pc' = "backward"
    /\ UNCHANGED <<geo_point1, geo_point2, distance_21, outside_geo>>

\* distance = engine.calculate_distance(geo_point2, geo_point1)
MeasureBackward ==
    /\ geo_pc = "backward"
    /\ distance_21' = calculate_distance(geo_point2, geo_point1)
    /\ geo_pc' = "done"
    /\ UNCHANGED <<geo_point1, geo_point2, distance_12, outside_geo>>

GeoNext ==
    \/ MeasureForward
    \/ MeasureBackward

SpecGeo == GeoInit /\ [][GeoNext]_vars

\* ------------------------------------------------------------------------
\* The mock weather service
\* ------------------------------------------------------------------------

\* _generate_mock_weather: random.choice of wind_speeds and wind_directions
generate_mock_weather(waypoint) ==
    {[location |-> waypoint, wind_speed |-> speed, wind_direction |-> direction] :
        speed \in {50, 75, 100, 125, 150},
        direction \in {270, 280, 290, 300}}

\* fetch_weather_for_waypoint of the mock service: the generated reading, or
\* None from the except branch
mock_fetch_weather_for_waypoint(waypoint) ==
    generate_mock_weather(waypoint) \cup {NoReading}

\* the reading put in front of the list, weather_data.insert(0, weather)
append_reading_front(data, weather) == <<weather>> \o data

\* weather_data.append(weather)
append_reading(data, weather) == Append(data, weather)

WeatherInit ==
    /\ EngineIdle
    /\ OutsideWeatherIdle
    /\ ws_pc = "loop"
    /\ ws_waypoints \in Routes
    /\ ws_index = 1
    /\ ws_weather_data = <<>>

\* one iteration of the for loop, lines 54-57
FetchWaypoint ==
    /\ ws_pc = "loop"
    /\ ws_index <= Len(ws_waypoints)
    /\ \E weather \in mock_fetch_weather_for_waypoint(ws_waypoints[ws_index]) :
           ws_weather_data' =
               IF weather = NoReading THEN ws_weather_data
               ELSE append_reading(ws_weather_data, weather)
    /\ ws_index' = ws_index + 1
    /\ UNCHANGED <<ws_pc, ws_waypoints, outside_ws>>

\* line 58
ReturnWeather ==
    /\ ws_pc = "loop"
    /\ ws_index > Len(ws_waypoints)
    /\ ws_pc' = "returned"
    /\ UNCHANGED <<ws_waypoints, ws_index, ws_weather_data, outside_ws>>

WeatherNext ==
    \/ FetchWaypoint
    \/ ReturnWeather

SpecWeather == WeatherInit /\ [][WeatherNext]_vars

\* ------------------------------------------------------------------------
\* The jet stream analysis and the texts of the result
\* ------------------------------------------------------------------------

\* longest route given to the jet stream analysis
MaxJetRoute == 3

\* waypoints at the poles, on the equator and at JFK: their means reach 30
\* and 60 degrees exactly
JetPoints == {"NP", "EQ0", "SP", "JFK"}

JetRoutes == SeqsUpTo(JetPoints, MaxJetRoute)

\* altitudes at and next to the ends of the jet stream band
JetAltitudes == {29999, 30000, 36000, 42000, 42001}

JetInit ==
    /\ EngineIdle
    /\ OutsideJetIdle
    /\ jet_pc = "analyze"
    /\ jet_waypoints \in JetRoutes
    /\ jet_altitude \in JetAltitudes
    /\ jet_info = NoValue
    /\ jet_rationale = <<>>
    /\ jet_weather_factors = <<>>

\* optimization_engine.py lines 206-209
AnalyzeJetStream ==
    /\ jet_pc = "analyze"
    /\ IF JetStreamRaises(jet_waypoints, jet_altitude)
       THEN /\ jet_pc' = "raised"
            /\ UNCHANGED jet_info
       ELSE /\ jet_info' = get_jet_stream_info(jet_waypoints, jet_altitude)
            /\ jet_pc' = "texts"
    /\ UNCHANGED <<jet_waypoints, jet_altitude, jet_rationale, jet_weather_factors,
                   outside_jet>>

\* optimization_engine.py lines 230-255, for an altitude change, a wind
\* impact (tenths of a knot) and readings of the caller
BuildTexts ==
    /\ jet_pc = "texts"
    /\ \E altitude_change \in {0, 2000}, impact \in {0, 50},
          wd \in {<<>>, <<[location |-> "JFK", wind_speed |-> 120,
                          wind_direction |-> 90]>>} :
           /\ jet_rationale' = rationale_of(altitude_change, jet_info,
                                            [avg_wind_impact |-> impact])
           /\ jet_weather_factors' = weather_factors_of(jet_info, wd)
    /\ jet_pc' = "done"
    /\ UNCHANGED <<jet_waypoints, jet_altitude, jet_info, outside_jet>>

JetNext ==
    \/ AnalyzeJetStream
    \/ BuildTexts

SpecJet == JetInit /\ [][JetNext]_vars

OutsideMcpIdle ==
    /\ GeoIdle /\ WeatherIdle /\ PairIdle /\ JetIdle /\ WorkflowIdle
    /\ BatchIdle

OutsideBatchIdle ==
    /\ GeoIdle /\ WeatherIdle /\ PairIdle /\ JetIdle /\ WorkflowIdle
    /\ McpIdle

\* ------------------------------------------------------------------------
\* The workflow orchestrator (strands_orchestrator.py) and
\* process_single_flight (main.py)
\* ------------------------------------------------------------------------

\* calls made on the orchestrator before process_single_flight
MaxWorkflowCalls == 6

\* the steps execute_workflow_step has a branch for, in the order
\* process_single_flight runs them
ExecutableSteps ==
    <<"DATA_INGESTION", "WEATHER_ANALYSIS", "OPTIMIZATION_COMPUTE",
      "RECOMMENDATION_GENERATION", "RESULTS_PUBLICATION">>

\* enum WorkflowState
WorkflowState ==
    {"INITIALIZED", "COMPLETED", "FAILED"}
        \cup {ExecutableSteps[i] : i \in 1..Len(ExecutableSteps)}

\* input_data: a dict, or None, on which input_data.get raises
InputData == {"dict", "None"}

\* the _step_ method of a state raises: no branch for the state, or
\* input_data.get on None (results publication does not read input_data)
StepRaises(state, input_data) ==
    \/ state \in {"INITIALIZED", "COMPLETED", "FAILED"}
    \/ input_data = "None" /\ state # "RESULTS_PUBLICATION"

\* the output of the _step_ method of a state
StepOutput(state) ==
    [step |-> state,
     next_state |->
        IF state = "DATA_INGESTION" THEN "WEATHER_ANALYSIS"
        ELSE IF state = "WEATHER_ANALYSIS" THEN "OPTIMIZATION_COMPUTE"
        ELSE IF state = "OPTIMIZATION_COMPUTE" THEN "RECOMMENDATION_GENERATION"
        ELSE IF state = "RECOMMENDATION_GENERATION" THEN "RESULTS_PUBLICATION"
        ELSE "COMPLETED"]

\* execute_workflow_step whose except branch records nothing
execute_workflow_step_silent(history, state, input_data) ==
    LET started == Append(history, [state |-> state, status |-> "started"])
    IN  IF StepRaises(state, input_data)
        THEN [history |-> started, raised |-> TRUE, output |-> NoValue]
        ELSE [history |-> Append(started, [state |-> state, status |-> "completed"]),
              raised |-> FALSE, output |-> StepOutput(state)]

\* execute_workflow_step: the history after the call, whether the call
\* raised, and the output it returned
execute_workflow_step(history, state, input_data) ==
    LET started == Append(history, [state |-> state, status |-> "started"])
    IN  IF StepRaises(state, input_data)
        THEN [history |-> Append(started, [state |-> state, status |-> "failed"]),
              raised |-> TRUE, output |-> NoValue]
        ELSE [history |-> Append(started, [state |-> state, status |-> "completed"]),
              raised |-> FALSE, output |-> StepOutput(state)]

\* reset_workflow leaving the history in place
reset_workflow_keep(history) == history

\* reset_workflow: self.workflow_history = []
reset_workflow(history) == <<>>

\* the entries of the history with status "completed"
CompletedSteps(history) ==
    SelectSeq(history, LAMBDA h : h.status = "completed")

get_workflow_status(history) ==
    IF history = <<>>
    THEN [status |-> "not_started", history |-> <<>>]
    ELSE [status |-> history[Len(history)].status,
          current_state |-> history[Len(history)].state,
          completed_steps |-> Len(CompletedSteps(history)),
          total_steps |-> 5,
          history |-> history]

WorkflowInit ==
    /\ EngineIdle
    /\ OutsideWorkflowIdle
    /\ wf_history = <<>>
    /\ wf_pc = "free"
    /\ wf_step = 1
    /\ wf_output = NoValue
    /\ wf_last_call = NoCall
    /\ wf_calls = 0
    /\ wf_status = NoValue

\* a caller runs execute_workflow_step(state, input_data)
ExecuteStep ==
    /\ wf_pc = "free"
    /\ wf_calls < MaxWorkflowCalls
    /\ \E state \in {"DATA_INGESTION", "INITIALIZED", "COMPLETED", "FAILED"},
          input_data \in InputData :
           /\ state # "DATA_INGESTION" => input_data = "dict"
           /\ LET done == execute_workflow_step(wf_history, state, input_data)
              IN  /\ wf_history' = done.history
                  /\ wf_output' = done.output
                  /\ wf_last_call' = [op |-> "execute", state |-> state,
                                      raised |-> done.raised,
                                      before |-> Len(wf_history)]
    /\ wf_calls' = wf_calls + 1
    /\ UNCHANGED <<wf_pc, wf_step, wf_status, outside_wf>>

\* a caller runs reset_workflow()
ResetWorkflow ==
    /\ wf_pc = "free"
    /\ wf_calls < MaxWorkflowCalls
    /\ wf_history # <<>>
    /\ wf_history' = reset_workflow(wf_history)
    /\ wf_last_call' = [op |-> "reset"]
    /\ wf_calls' = wf_calls + 1
    /\ UNCHANGED <<wf_pc, wf_step, wf_output, wf_status, outside_wf>>

\* process_single_flight begins: main.py line 133
ProcessReset ==
    /\ wf_pc = "free"
    /\ wf_history' = reset_workflow(wf_history)
    /\ wf_last_call' = [op |-> "reset"]
    /\ wf_pc' = "step"
    /\ wf_step' = 1
    /\ wf_output' = NoValue
    /\ UNCHANGED <<wf_calls, wf_status, outside_wf>>

\* optimize_flight raises before step 3 is executed: main.py line 152
ProcessOptimizeRaises ==
    /\ wf_pc = "step"
    /\ wf_step = 3
    /\ wf_pc' = "raised"
    /\ UNCHANGED <<wf_history, wf_step, wf_output, wf_last_call, wf_calls,
                   wf_status, outside_wf>>

\* one of the five execute_workflow_step calls of process_single_flight:
\* main.py lines 137, 145, 154, 162, 170
ProcessStep ==
    /\ wf_pc = "step"
    /\ wf_step <= Len(ExecutableSteps)
    /\ LET done == execute_workflow_step(wf_history, ExecutableSteps[wf_step],
                                         "dict")
       IN  /\ wf_history' = done.history
           /\ wf_output' = done.output
           /\ wf_last_call' = [op |-> "execute", state |-> ExecutableSteps[wf_step],
                               raised |-> done.raised, before |-> Len(wf_history)]
           /\ wf_pc' = IF done.raised THEN "raised" ELSE "step"
    /\ wf_step' = wf_step + 1
    /\ UNCHANGED <<wf_calls, wf_status, outside_wf>>

\* main.py lines 176-184
ProcessReturn ==
    /\ wf_pc = "step"
    /\ wf_step > Len(ExecutableSteps)
    /\ wf_status' = get_workflow_status(wf_history)
    /\ wf_pc' = "returned"
    /\ UNCHANGED <<wf_history, wf_step, wf_output, wf_last_call, wf_calls,
                   outside_wf>>

WorkflowNext ==
    \/ ExecuteStep
    \/ ResetWorkflow
    \/ ProcessReset
    \/ ProcessOptimizeRaises
    \/ ProcessStep
    \/ ProcessReturn

SpecWorkflow == WorkflowInit /\ [][WorkflowNext]_vars

\* ------------------------------------------------------------------------
\* Two interleaved calls of optimize_flight
\* ------------------------------------------------------------------------

\* the flight plans of the two calls
PairPlans ==
    {[aircraft_type |-> "B737_800", route_waypoints |-> <<"JFK", "LAX">>,
      cruise_altitude |-> 28000, passenger_count |-> 150, cargo_weight |-> 5000],
     [aircraft_type |-> "B777_300", route_waypoints |-> <<"LAX", "MIA">>,
      cruise_altitude |-> 35000, passenger_count |-> 150, cargo_weight |-> 5000]}

\* best_altitude and best_altitude_fuel kept in one place of the engine,
\* self.best_altitude, for all calls
local_slot_shared(c) == 1

\* best_altitude and best_altitude_fuel are local variables of the call
local_slot(c) == c

PairInit ==
    /\ EngineIdle
    /\ OutsidePairIdle
    /\ plans \in [Calls -> PairPlans]
    /\ plans[1] # plans[2]
    /\ submitted = plans
    /\ frames = [c \in Calls |-> [IdleFrame EXCEPT !.pc = "fetch"]]
    /\ best = [c \in Calls |-> NoBest]
    /\ aircraft_db = AIRCRAFT_DB

\* the call raises e
FrameRaise(c, e) ==
    frames' = [frames EXCEPT ![c].pc = "raised", ![c].error = e]

\* line 184
CallFetchWeather(c) ==
    /\ frames[c].pc = "fetch"
    /\ \E wd \in fetch_weather_for_route(plans[c].route_waypoints) :
           frames' = [frames EXCEPT ![c].weather_data = wd, ![c].pc = "original"]
    /\ UNCHANGED <<best, plans, submitted, aircraft_db>>

\* lines 187-197
CallEstimateOriginal(c) ==
    /\ frames[c].pc = "original"
    /\ IF EstimateRaises(plans[c], frames[c].weather_data)
       THEN /\ FrameRaise(c, "ZeroDivisionError")
            /\ UNCHANGED best
       ELSE LET calc == estimate_fuel_consumption(plans[c], frames[c].weather_data,
                                                  plans[c].cruise_altitude)
            IN  /\ frames' = [frames EXCEPT ![c].original_fuel_calc = calc,
                                            ![c].pc = "sweep"]
                /\ best' = [best EXCEPT ![local_slot(c)] =
                               [altitude |-> seed_altitude(plans[c]),
                                fuel |-> calc.total_fuel]]
    /\ UNCHANGED <<plans, submitted, aircraft_db>>

\* lines 199-203, one iteration of the loop
CallSweepStep(c) ==
    /\ frames[c].pc = "sweep"
    /\ frames[c].alt_i <= Len(altitude_options)
    /\ LET alt == altitude_options[frames[c].alt_i]
           fuel_calc == estimate_fuel_consumption(plans[c], frames[c].weather_data,
                                                  alt)
       IN  /\ IF Improves(fuel_calc.total_fuel, best[local_slot(c)].fuel)
              THEN best' = [best EXCEPT ![local_slot(c)] =
                               [altitude |-> alt, fuel |-> fuel_calc.total_fuel]]
              ELSE UNCHANGED best
           /\ frames' = [frames EXCEPT ![c].alt_i = @ + 1]
    /\ UNCHANGED <<plans, submitted, aircraft_db>>

\* lines 206-209
CallJetStream(c) ==
    /\ frames[c].pc = "sweep"
    /\ frames[c].alt_i > Len(altitude_options)
    /\ IF JetStreamRaises(plans[c].route_waypoints, best[local_slot(c)].altitude)
       THEN FrameRaise(c, "ZeroDivisionError")
       ELSE frames' = [frames EXCEPT
                ![c].jet_stream = get_jet_stream_info(plans[c].route_waypoints,
                                                      best[local_slot(c)].altitude),
                ![c].pc = "final"]
    /\ UNCHANGED <<best, plans, submitted, aircraft_db>>

\* lines 212-217
CallEstimateOptimized(c) ==
    /\ frames[c].pc = "final"
    /\ frames' = [frames EXCEPT
           ![c].optimized_fuel_calc =
               estimate_fuel_consumption(plans[c], frames[c].weather_data,
                                         best[local_slot(c)].altitude),
           ![c].pc = "classify"]
    /\ UNCHANGED <<best, plans, submitted, aircraft_db>>

\* lines 219-278
CallClassify(c) ==
    /\ frames[c].pc = "classify"
    /\ LET original == frames[c].original_fuel_calc.total_fuel
           e == ClassifyError(original, frames[c].optimized_fuel_calc.total_fuel)
       IN  IF e # "none"
           THEN FrameRaise(c, e)
           ELSE frames' = [frames EXCEPT
                    ![c].result = OptimizationResult(plans[c], frames[c].weather_data,
                                                     original,
                                                     best[local_slot(c)].altitude,
                                                     frames[c].jet_stream,
                                                     frames[c].optimized_fuel_calc),
                    ![c].pc = "returned"]
    /\ UNCHANGED <<best, plans, submitted, aircraft_db>>

PairFetchWeather ==
    (\E c \in Calls : CallFetchWeather(c)) /\ UNCHANGED outside_pair

PairEstimateOriginal ==
    (\E c \in Calls : CallEstimateOriginal(c))
        /\ UNCHANGED outside_pair

PairSweepStep ==
    (\E c \in Calls : CallSweepStep(c)) /\ UNCHANGED outside_pair

PairJetStream ==
    (\E c \in Calls : CallJetStream(c)) /\ UNCHANGED outside_pair

PairEstimateOptimized ==
    (\E c \in Calls : CallEstimateOptimized(c))
        /\ UNCHANGED outside_pair

PairClassify ==
    (\E c \in Calls : CallClassify(c)) /\ UNCHANGED outside_pair

PairNext ==
    \/ PairFetchWeather
    \/ PairEstimateOriginal
    \/ PairSweepStep
    \/ PairJetStream
    \/ PairEstimateOptimized
    \/ PairClassify

SpecPair == PairInit /\ [][PairNext]_vars

\* ------------------------------------------------------------------------
\* The integration layer (mcp_integration.py) and its callers
\* ------------------------------------------------------------------------

\* calls of publish_to_operations on one MCPIntegration
MaxPublishCalls == 3

\* savings_percentage of the results handed over, hundredths of a percent
SavingsPercentages == {-150, 0, 199, 200, 201, 499, 500, 501, 1234}

\* priority strings of the recommendations an event carries
EventPriorities == {"high", "medium", "low", "HIGH", "Medium", "urgent", ""}

\* str.lower on the priority strings
lower(priority) ==
    IF priority = "HIGH" THEN "high"
    ELSE IF priority = "Medium" THEN "medium"
    ELSE priority

\* create_recommendation_message with the first threshold exclusive
create_recommendation_message_gt(savings_percentage) ==
    [priority |->
        IF savings_percentage > 500 THEN "high"
        ELSE IF savings_percentage >= 200 THEN "medium"
        ELSE "low"]

\* create_recommendation_message: the priority of the recommendation
create_recommendation_message(savings_percentage) ==
    [priority |->
        IF savings_percentage >= 500 THEN "high"
        ELSE IF savings_percentage >= 200 THEN "medium"
        ELSE "low"]

\* _priority_to_int: priority_map.get(priority.lower(), 5)
priority_to_int(priority) ==
    LET priority_map == [low |-> 3, medium |-> 6, high |-> 9]
    IN  IF lower(priority) \in DOMAIN priority_map
        THEN priority_map[lower(priority)]
        ELSE 5

\* _simulate_publish: the status of the result
simulate_publish == [status |-> "published"]

\* publish_to_operations(recommendation): the message is built and sent,
\* one entry is appended to message_history
Publish(recommendation, caller) ==
    /\ mcp_publish_calls < MaxPublishCalls
    /\ mcp_sent' = Append(mcp_sent, priority_to_int(recommendation.priority))
    /\ mcp_message_history' =
            Append(mcp_message_history,
                   [priority |-> recommendation.priority,
                    status |-> simulate_publish.status])
    /\ mcp_publish_calls' = mcp_publish_calls + 1
    /\ mcp_last_call' = [op |-> "publish", caller |-> caller]

McpInit ==
    /\ EngineIdle
    /\ OutsideMcpIdle
    /\ McpIdle

\* create_recommendation_message(optimization_result)
CreateRecommendation ==
    /\ \E savings_percentage \in SavingsPercentages :
            /\ mcp_recommendation' =
                    create_recommendation_message(savings_percentage)
            /\ mcp_last_call' = [op |-> "create",
                                 savings_percentage |-> savings_percentage]
    /\ UNCHANGED <<mcp_sent, mcp_message_history, mcp_publish_calls>>
    /\ UNCHANGED outside_mcp

\* publish_to_operations(recommendation) with the recommendation created
\* (process_single_flight step 5, lambda_handler)
PublishToOperations ==
    /\ mcp_recommendation # NoValue
    /\ Publish(mcp_recommendation, "process_single_flight")
    /\ UNCHANGED mcp_recommendation
    /\ UNCHANGED outside_mcp

\* results_publication_handler(event): the recommendation is rebuilt from
\* event['recommendation'] and published
ResultsPublicationHandler ==
    /\ \E priority \in EventPriorities :
            Publish([priority |-> priority], "results_publication_handler")
    /\ UNCHANGED mcp_recommendation
    /\ UNCHANGED outside_mcp

McpNext ==
    \/ CreateRecommendation
    \/ PublishToOperations
    \/ ResultsPublicationHandler

SpecMcp == McpInit /\ [][McpNext]_vars

\* ------------------------------------------------------------------------
\* The batch run (main.py)
\* ------------------------------------------------------------------------

\* rows in the flight file
MaxFlights == 3

\* a row of a file with a flight_id column: the plan is created and the
\* flight processed, create_flight_plan raises, or process_single_flight
\* raises
RowKinds == {"ok", "plan_raises", "processing_raises"}

\* a row of a file without a flight_id column: flight_data['flight_id']
\* raises KeyError
NoFlightId == "no_flight_id"

\* what load_flight_data can return: csv.DictReader gives every row the
\* keys of the header
FlightFiles ==
    UNION {[1..n -> RowKinds] : n \in 0..MaxFlights}
        \cup {[i \in 1..n |-> NoFlightId] : n \in 1..MaxFlights}

\* the dict process_single_flight returns for the row at position i:
\* recommendation.dict() keeps generated_at as a datetime object
ResultOf(i) == [row |-> i, generated_at |-> "datetime"]

\* json.dump accepts the value (no default= is given)
JsonSerializable(value) == value # "datetime"

\* generate_report(results): _generate_summary divides by len(results),
\* then json.dump writes the report
generate_report(results) ==
    IF Len(results) = 0
    THEN [raised |-> "ZeroDivisionError", report |-> NoValue]
    ELSE IF \E i \in 1..Len(results) : ~JsonSerializable(results[i].generated_at)
    THEN [raised |-> "TypeError", report |-> NoValue]
    ELSE [raised |-> "none",
          report |-> [total_flights |-> Len(results), flights |-> results]]

BatchInit ==
    /\ EngineIdle
    /\ OutsideBatchIdle
    /\ batch_pc = "loop"
    /\ batch_flights \in FlightFiles
    /\ batch_next = 1
    /\ batch_results = <<>>
    /\ batch_logged = <<>>
    /\ batch_report = NoValue
    /\ batch_error = "none"

\* one iteration of the loop over flights: the try block and its handler
ProcessFlight ==
    /\ batch_pc = "loop"
    /\ batch_next <= Len(batch_flights)
    /\ LET flight_data == batch_flights[batch_next]
       IN  IF flight_data = "ok"
           THEN /\ batch_results' = Append(batch_results, ResultOf(batch_next))
                /\ batch_next' = batch_next + 1
                /\ UNCHANGED <<batch_pc, batch_logged, batch_error>>
           ELSE IF flight_data = NoFlightId
           THEN \* the handler's own flight_data['flight_id'] raises
                /\ batch_pc' = "raised"
                /\ batch_error' = "KeyError"
                /\ UNCHANGED <<batch_next, batch_results, batch_logged>>
           ELSE /\ batch_logged' = Append(batch_logged, batch_next)
                /\ batch_next' = batch_next + 1
                /\ UNCHANGED <<batch_pc, batch_results, batch_error>>
    /\ UNCHANGED <<batch_flights, batch_report, outside_batch>>

\* after the loop: generate_report(results) and the return of the report
GenerateReport ==
    /\ batch_pc = "loop"
    /\ batch_next > Len(batch_flights)
    /\ LET done == generate_report(batch_results)
       IN  /\ batch_pc' = IF done.raised = "none" THEN "returned" ELSE "raised"
           /\ batch_error' = done.raised
           /\ batch_report' = done.report
    /\ UNCHANGED <<batch_flights, batch_next, batch_results, batch_logged,
                   outside_batch>>

BatchNext ==
    \/ ProcessFlight
    \/ GenerateReport

SpecBatch == BatchInit /\ [][BatchNext]_vars

\* ------------------------------------------------------------------------
\* Properties
\* ------------------------------------------------------------------------

\* the five candidate altitudes, as listed in the specification
Candidates == {32000, 34000, 36000, 38000, 40000}

\* the requested altitude followed by the candidates in their listed order
SearchOrder ==
    <<flight_plan.cruise_altitude, 32000, 34000, 36000, 38000, 40000>>

\* total fuel (tenths of a kg) estimated for the current plan and readings
TotalAt(altitude) ==
    estimate_fuel_consumption(flight_plan, weather_data, altitude).total_fuel

\* the totals estimated at the altitudes of SearchOrder, in that order
SearchTotals ==
    <<TotalAt(flight_plan.cruise_altitude), TotalAt(32000), TotalAt(34000),
      TotalAt(36000), TotalAt(38000), TotalAt(40000)>>

\* the original estimate has been returned to optimize_flight
Estimated == pc \in {"sweep", "final", "classify", "returned"}

\* |optimized_altitude - requested altitude| of the returned result
ResultAltitudeChange ==
    Abs(result.optimized_altitude - flight_plan.cruise_altitude)

\* C1: a returned result has fuel_savings = original_fuel - optimized_fuel,
\* the original and optimized fuel are the totals of the two estimates, and
\* fuel_savings >= 0, i.e. optimized_fuel <= original_fuel.
C1_SavingsNonNegative ==
    pc = "returned" =>
        /\ result.original_fuel = original_fuel_calc.total_fuel
        /\ result.optimized_fuel = optimized_fuel_calc.total_fuel
        /\ result.fuel_savings = result.original_fuel - result.optimized_fuel
        /\ result.fuel_savings >= 0
        /\ result.optimized_fuel <= result.original_fuel

\* a result whose optimized altitude saves fuel has been returned
C1_Witness == pc = "returned" /\ result.fuel_savings > 0

\* C2: the returned optimized_fuel is the minimum of the totals estimated at
\* the requested altitude and at the five candidates, and optimized_altitude
\* is one of these altitudes and attains that minimum.
C2_MinimumFuel ==
    pc = "returned" =>
        LET totals == SearchTotals
        IN  /\ \A k \in 1..Len(totals) : result.optimized_fuel <= totals[k]
            /\ \E k \in 1..Len(totals) :
                   /\ SearchOrder[k] = result.optimized_altitude
                   /\ totals[k] = result.optimized_fuel

\* a result whose minimum is attained by a candidate strictly better than the
\* requested altitude and than another candidate
C2_Witness ==
    /\ pc = "returned"
    /\ result.optimized_fuel < TotalAt(flight_plan.cruise_altitude)
    /\ \E a \in Candidates : result.optimized_fuel < TotalAt(a)

\* C3: the returned altitude is the first altitude, in the order requested
\* altitude then 32000, 34000, 36000, 38000, 40000, whose total equals the
\* minimum: every altitude before it in that order has a strictly larger
\* total, so the requested altitude is kept unless a candidate is strictly
\* better and of equal candidates the earlier one is returned.
C3_TieKeepsEarlier ==
    pc = "returned" =>
        LET totals == SearchTotals
        IN  \E j \in 1..Len(totals) :
                /\ SearchOrder[j] = result.optimized_altitude
                /\ \A k \in 1..Len(totals) : totals[j] <= totals[k]
                /\ \A k \in 1..(j - 1) : totals[k] > totals[j]

\* a result where a later candidate ties with the returned candidate
C3_Witness ==
    /\ pc = "returned"
    /\ result.optimized_altitude \in Candidates
    /\ result.optimized_altitude # flight_plan.cruise_altitude
    /\ \E a \in Candidates :
           /\ a > result.optimized_altitude
           /\ TotalAt(a) = result.optimized_fuel

\* C4: the returned optimized_altitude is the requested cruise altitude or
\* one of 32000, 34000, 36000, 38000, 40000.
C4_AltitudeFromOptions ==
    pc = "returned" =>
        result.optimized_altitude \in Candidates \cup {flight_plan.cruise_altitude}

\* a result that keeps a requested altitude that is not a candidate
C4_Witness ==
    /\ pc = "returned"
    /\ flight_plan.cruise_altitude \notin Candidates
    /\ result.optimized_altitude = flight_plan.cruise_altitude

\* C5: the confidence_score of a returned result lies in [0.70, 0.95].
C5_ConfidenceRange ==
    pc = "returned" =>
        /\ 7000 <= result.confidence_score
        /\ result.confidence_score <= 9500

\* C6: with altitude_change = |optimized_altitude - requested altitude|, a
\* returned result has type ALTITUDE_OPTIMIZATION and time_impact 2 when
\* altitude_change >= 4000, and type ROUTE_MODIFICATION and time_impact 0
\* otherwise.
C6_TypeAndTimeImpact ==
    pc = "returned" =>
        IF ResultAltitudeChange >= 4000
        THEN /\ result.recommendation_type = "ALTITUDE_OPTIMIZATION"
             /\ result.time_impact = 2
        ELSE /\ result.recommendation_type = "ROUTE_MODIFICATION"
             /\ result.time_impact = 0

\* a result whose altitude change is exactly 4000 ft
C6_Witness ==
    /\ pc = "returned"
    /\ ResultAltitudeChange = 4000
    /\ result.time_impact = 2

\* C7: when the ground speed is <= 0 the estimate fails with
\* InvalidGroundSpeedError, and no estimate with a negative flight time or a
\* negative total fuel is returned.
C7_InvalidGroundSpeed ==
    /\ (pc \notin {"fetch", "original"}
            /\ ground_speed_of(flight_plan, weather_data) <= 0)
          => (pc = "raised" /\ error = "InvalidGroundSpeedError")
    /\ Estimated =>
          /\ original_fuel_calc.flight_time_hours >= 0
          /\ original_fuel_calc.total_fuel >= 0

\* C8: with an empty weather list, or one shorter than the route,
\* optimize_flight does not fail; with an empty list the wind impact is 0 and
\* the weather_factors of the result are empty.
C8_EmptyWeather ==
    /\ (pc # "fetch" /\ Len(weather_data) < Len(flight_plan.route_waypoints))
          => pc # "raised"
    /\ (pc # "fetch" /\ weather_data = <<>>) => pc # "raised"
    /\ (Estimated /\ weather_data = <<>>)
          => original_fuel_calc.avg_wind_impact = 0
    /\ (pc = "returned" /\ weather_data = <<>>)
          => result.weather_factors = <<>>

\* mean of the wind components of all readings, hundredths of a knot
MeanOfAllComponents(wd) ==
    IF wd = <<>> THEN 0
    ELSE RDiv(SumSeq([i \in 1..Len(wd) |-> wind_component(wd[i])]), Len(wd))

\* C9: the wind impact of an estimate is the arithmetic mean of the
\* components of all the readings supplied (0 when there are none).
C9_WindImpactIsMean ==
    Estimated =>
        original_fuel_calc.avg_wind_impact
            = Round1(MeanOfAllComponents(weather_data))

\* C10: for a route of 0 or 1 waypoints the estimate has distance 0 and
\* cruise fuel 0, and optimize_flight returns a result without raising.
C10_ShortRoute ==
    Len(flight_plan.route_waypoints) <= 1 =>
        /\ pc # "raised"
        /\ Estimated =>
              /\ original_fuel_calc.distance_nm = 0
              /\ original_fuel_calc.cruise_fuel = 0

\* the current flight plan with aircraft_type set to the default profile
DefaultTypePlan == [flight_plan EXCEPT !.aircraft_type = "B737_800"]

\* C11: for a plan whose aircraft_type is not a key of the aircraft table the
\* estimate, the result and the exception (if any) are those of the same
\* plan with aircraft_type B737-800; the unknown type raises nothing itself.
C11_UnknownTypeIsDefault ==
    flight_plan.aircraft_type \notin DOMAIN AIRCRAFT_DB =>
        /\ Estimated =>
               original_fuel_calc
                   = estimate_fuel_consumption(DefaultTypePlan, weather_data,
                                               flight_plan.cruise_altitude)
        /\ pc = "returned" =>
               /\ optimize_flight(DefaultTypePlan, weather_data).error = "none"
               /\ optimize_flight(DefaultTypePlan, weather_data).result = result
        /\ pc = "raised" =>
               optimize_flight(DefaultTypePlan, weather_data).error = error

\* a result has been returned for a plan of unknown aircraft type
C11_Witness ==
    /\ pc = "returned"
    /\ flight_plan.aircraft_type \notin DOMAIN AIRCRAFT_DB
    /\ Len(flight_plan.route_waypoints) = 2

\* the requested altitude is the optimal altitude of the plan's profile and
\* no reading was fetched
AtOptimumNoWeather ==
    /\ weather_data = <<>>
    /\ flight_plan.cruise_altitude
           = AircraftOf(flight_plan.aircraft_type).optimal_cruise_altitude

\* C12: when the requested altitude is the profile's optimal altitude and the
\* weather list is empty, the returned optimized_altitude is the requested
\* altitude, fuel_savings is 0, and the original estimate has altitude
\* factor 1, wind impact 0 and ground speed equal to the cruise speed.
C12_OptimalStaysPut ==
    (pc = "returned" /\ AtOptimumNoWeather) =>
        /\ result.optimized_altitude = flight_plan.cruise_altitude
        /\ result.fuel_savings = 0
        /\ result.optimized_fuel = result.original_fuel
        /\ original_fuel_calc.altitude_factor = 10000
        /\ original_fuel_calc.avg_wind_impact = 0
        /\ original_fuel_calc.ground_speed
               = 10 * AircraftOf(flight_plan.aircraft_type).cruise_speed

\* a result for B737-800 at 36000 ft over two waypoints without readings
C12_Witness ==
    /\ pc = "returned"
    /\ AtOptimumNoWeather
    /\ flight_plan.aircraft_type = "B737_800"
    /\ Len(flight_plan.route_waypoints) = 2

\* C13: once the engine runs, every waypoint of the plan has a latitude in
\* [-90, 90] and a longitude in [-180, 180], cargo weight and passenger count
\* are not negative, and the payload of an estimate is not negative.
C13_ValidatedInputs ==
    Estimated =>
        /\ \A i \in 1..Len(flight_plan.route_waypoints) :
               WaypointAccepted(flight_plan.route_waypoints[i])
        /\ flight_plan.cargo_weight >= 0
        /\ flight_plan.passenger_count >= 0
        /\ original_fuel_calc.payload >= 0

\* the legs of the current route: distances of consecutive waypoints
RouteLegs ==
    LET r == flight_plan.route_waypoints
    IN  IF Len(r) < 2 THEN <<>>
        ELSE [i \in 1..(Len(r) - 1) |-> DistanceTable[r[i]][r[i + 1]]]

Deviations == <<0, 1000, 2000, 3000, 5000, 8000>>

OptimalAltitude == AircraftOf(flight_plan.aircraft_type).optimal_cruise_altitude

\* altitude factor at the optimal altitude plus (sign = 1) or minus
\* (sign = -1) the k-th deviation
FactorAtDev(k, sign) ==
    calculate_altitude_factor(OptimalAltitude + (sign * Deviations[k]),
                              OptimalAltitude)

\* totals at the optimal altitude plus the deviations, in their order
TotalsAbove ==
    [k \in 1..Len(Deviations) |-> TotalAt(OptimalAltitude + Deviations[k])]

\* totals at the optimal altitude minus the deviations, in their order
TotalsBelow ==
    [k \in 1..Len(Deviations) |-> TotalAt(OptimalAltitude - Deviations[k])]

\* C19: the altitude factor is 1.0 at the optimal altitude, the same at
\* optimal + d and optimal - d, and does not decrease as the deviation grows;
\* with a positive ground speed the total fuel does not decrease as the
\* deviation grows either, and is the same on both sides.
C19_FactorMonotoneSymmetric ==
    pc = "final" =>
        /\ FactorAtDev(1, 1) = 10000
        /\ \A k \in 1..Len(Deviations) : FactorAtDev(k, 1) = FactorAtDev(k, -1)
        /\ \A k \in 1..(Len(Deviations) - 1) :
               FactorAtDev(k, 1) <= FactorAtDev(k + 1, 1)
        /\ ground_speed_of(flight_plan, weather_data) > 0 =>
               LET above == TotalsAbove
                   below == TotalsBelow
               IN  /\ \A k \in 1..(Len(Deviations) - 1) : above[k] <= above[k + 1]
                   /\ \A k \in 1..Len(Deviations) : above[k] = below[k]

\* a flight with positive ground speed whose total fuel is strictly larger
\* 1000 ft off the optimal altitude than at it
C19_Witness ==
    /\ pc = "final"
    /\ ground_speed_of(flight_plan, weather_data) > 0
    /\ Len(flight_plan.route_waypoints) = 2
    /\ TotalAt(OptimalAltitude + 1000) > TotalAt(OptimalAltitude)
    /\ FactorAtDev(2, -1) > 10000

\* C20 as stated: the returned total_fuel equals the returned cruise_fuel
\* plus the returned reserve_fuel.
C20_TotalIsSumExact ==
    Estimated =>
        original_fuel_calc.total_fuel
            = original_fuel_calc.cruise_fuel + original_fuel_calc.reserve_fuel

\* C20 (amended): the returned total_fuel, cruise_fuel and reserve_fuel are
\* each rounded to one decimal, so total_fuel differs from cruise_fuel +
\* reserve_fuel by at most 0.1, and reserve_fuel differs from
\* 0.05 x cruise_fuel + 0.5 x fuel_burn_rate by at most 0.1.
C20_TotalIsSumRounded ==
    Estimated =>
        LET e == original_fuel_calc
        IN  /\ Abs(e.total_fuel - (e.cruise_fuel + e.reserve_fuel)) <= 1
            /\ Abs((20 * e.reserve_fuel) - (e.cruise_fuel + (10 * e.fuel_burn_rate)))
                   <= 20

\* an estimate whose rounded parts do not add up to the rounded total
C20_Witness ==
    /\ Estimated
    /\ original_fuel_calc.cruise_fuel > 0
    /\ original_fuel_calc.total_fuel
           # original_fuel_calc.cruise_fuel + original_fuel_calc.reserve_fuel

\* C16: calculate_distance gives the same distance for a pair of points
\* and for the pair swapped, and 0 for a point and itself.
C16_DistanceSymmetric ==
    geo_pc = "done" =>
        /\ distance_12 = distance_21
        /\ geo_point1 = geo_point2 => distance_12 = 0

\* two different waypoints at different latitudes, measured both ways
C16_Witness ==
    /\ geo_pc = "done"
    /\ geo_point1 = "JFK"
    /\ geo_point2 = "MIA"
    /\ distance_12 > 0

\* C17: the distance from JFK (40.6413, -73.7781) to LAX (33.9416,
\* -118.4085) lies between 2100 and 2200 nautical miles.
C17_JfkLaxDistance ==
    (geo_pc # "forward" /\ geo_point1 = "JFK" /\ geo_point2 = "LAX") =>
        /\ 210000 <= distance_12
        /\ distance_12 <= 220000

\* JFK to LAX measured: 2145.97 nm
C17_Witness ==
    /\ geo_pc = "done"
    /\ geo_point1 = "JFK"
    /\ geo_point2 = "LAX"
    /\ distance_12 = 214597

\* the locations of a list of readings
Locations(data) == [i \in 1..Len(data) |-> data[i].location]

\* s can be obtained from t by deleting elements
RECURSIVE IsSubsequence(_, _)
IsSubsequence(s, t) ==
    IF s = <<>> THEN TRUE
    ELSE IF t = <<>> THEN FALSE
    ELSE IF Head(s) = Head(t) THEN IsSubsequence(Tail(s), Tail(t))
    ELSE IsSubsequence(s, Tail(t))

\* C15: fetch_weather_for_route returns at most one reading per waypoint, in
\* waypoint order (the locations are a subsequence of the waypoint names),
\* every reading with a wind speed >= 0 (the mock: > 0) and a direction in
\* [0, 360).
C15_ReadingsFollowWaypoints ==
    ws_pc = "returned" =>
        /\ Len(ws_weather_data) <= Len(ws_waypoints)
        /\ IsSubsequence(Locations(ws_weather_data), ws_waypoints)
        /\ \A i \in 1..Len(ws_weather_data) :
               /\ ws_weather_data[i].wind_speed > 0
               /\ 0 <= ws_weather_data[i].wind_direction
               /\ ws_weather_data[i].wind_direction < 360

\* a route of two waypoints returned with a reading for each, in route order
C15_Witness ==
    /\ ws_pc = "returned"
    /\ Len(ws_waypoints) = 2
    /\ Len(ws_weather_data) = 2
    /\ ws_weather_data[1].location = ws_waypoints[1]
    /\ ws_weather_data[2].location = ws_waypoints[2]
    /\ ws_weather_data[1].wind_speed = 150

\* what call c returns or raises when it runs alone on the plan it was
\* given and the readings it fetched
Alone(c) == optimize_flight(submitted[c], frames[c].weather_data)

\* C14: two interleaved calls of optimize_flight leave the aircraft table and
\* the flight plans as they were, and each returns (or raises) what it
\* returns (or raises) when run alone on the same weather readings.
C14_InterleavedAsAlone ==
    /\ aircraft_db = AIRCRAFT_DB
    /\ plans = submitted
    /\ \A c \in Calls :
           frames[c].pc \in {"returned", "raised"} =>
               LET alone == Alone(c)
               IN  /\ alone.error = frames[c].error
                   /\ frames[c].pc = "returned" => alone.result = frames[c].result

\* call 1 has returned a changed altitude while call 2 is in the middle of
\* its sweep
C14_Witness ==
    /\ frames[1].pc = "returned"
    /\ frames[1].result.optimized_altitude # submitted[1].cruise_altitude
    /\ frames[2].pc = "sweep"
    /\ frames[2].alt_i = 3

\* the elements of a sequence
Range(seq) == {seq[i] : i \in 1..Len(seq)}

\* 30000 <= altitude <= 42000 and the magnitude of the mean latitude of the
\* analysed route is in [30, 60] degrees
JetExpected ==
    /\ 30000 <= jet_altitude /\ jet_altitude <= 42000
    /\ jet_waypoints # <<>>
    /\ LET magnitude == Abs(SumLatitude(jet_waypoints))
       IN  /\ magnitude >= 300000 * Len(jet_waypoints)
           /\ magnitude <= 600000 * Len(jet_waypoints)

\* C21: the jet stream is present exactly when 30000 <= altitude <= 42000
\* and the magnitude of the mean route latitude is in [30, 60], bounds
\* included; the rationale has a jet stream clause and the weather factors
\* have a jet stream entry exactly when it is present.
C21_JetStreamPresence ==
    /\ jet_pc \in {"texts", "done"} => (jet_info.present <=> JetExpected)
    /\ jet_pc = "done" =>
           /\ "jet_stream" \in Range(jet_rationale) <=> jet_info.present
           /\ "jet_stream" \in Range(jet_weather_factors) <=> jet_info.present

\* at 42000 ft over a route whose mean latitude is exactly 60 degrees the
\* jet stream is present and both texts carry it
C21_Witness ==
    /\ jet_pc = "done"
    /\ jet_altitude = 42000
    /\ jet_waypoints = <<"NP", "NP", "EQ0">>
    /\ jet_info.present
    /\ "jet_stream" \in Range(jet_rationale)
    /\ "jet_stream" \in Range(jet_weather_factors)

\* the condition of a rationale clause holds for the returned result
ClauseHolds(clause) ==
    IF clause = "altitude_change" THEN ResultAltitudeChange >= 2000
    ELSE IF clause = "jet_stream" THEN jet_stream.present
    ELSE optimized_fuel_calc.avg_wind_impact > 0

\* the clauses whose condition holds, in the order altitude change, jet
\* stream, tailwind
ExpectedClauses ==
    SelectSeq(<<"altitude_change", "jet_stream", "tailwind">>, ClauseHolds)

\* C22: the rationale is the clauses whose condition holds, in the order
\* altitude change, jet stream, tailwind, with ". " between neighbours; it
\* is the fallback string exactly when no condition holds.
C22_RationaleClauses ==
    pc = "returned" =>
        LET expected == ExpectedClauses
            rationale == result.rationale
        IN  /\ expected = <<>> <=> rationale = <<"Standard optimization applied">>
            /\ expected # <<>> =>
                   /\ Len(rationale) = (2 * Len(expected)) - 1
                   /\ \A i \in 1..Len(expected) : rationale[(2 * i) - 1] = expected[i]
                   /\ \A i \in 1..(Len(expected) - 1) : rationale[2 * i] = ". "

\* a result whose rationale carries all three clauses
C22_Witness ==
    /\ pc = "returned"
    /\ result.rationale
           = <<"altitude_change", ". ", "jet_stream", ". ", "tailwind">>

\* the mean wind speed of the readings is above 100 knots
MeanWindAbove100 ==
    /\ weather_data # <<>>
    /\ SumSeq([i \in 1..Len(weather_data) |-> weather_data[i].wind_speed])
           > 100 * Len(weather_data)

\* C23: the weather factors have a strong wind entry exactly when the mean
\* wind speed of the readings is above 100 knots, whatever the rationale,
\* and the jet stream entry comes before it.
C23_StrongWindEntry ==
    pc = "returned" =>
        LET factors == result.weather_factors
        IN  /\ "strong_winds" \in Range(factors) <=> MeanWindAbove100
            /\ ("strong_winds" \in Range(factors) /\ "jet_stream" \in Range(factors))
                   => factors = <<"jet_stream", "strong_winds">>

\* readings of 100 and 120 knots: the strong wind entry follows the jet
\* stream entry
C23_Witness ==
    /\ pc = "returned"
    /\ Len(weather_data) = 2
    /\ weather_data[1].wind_speed = 100
    /\ weather_data[2].wind_speed = 120
    /\ result.weather_factors = <<"jet_stream", "strong_winds">>

\* a mean of exactly 100 knots gives no strong wind entry
C23_WitnessAtThreshold ==
    /\ pc = "returned"
    /\ weather_data # <<>>
    /\ \A i \in 1..Len(weather_data) : weather_data[i].wind_speed = 100
    /\ "strong_winds" \notin Range(result.weather_factors)

\* C24: in one call the readings are fetched once, before any estimate,
\* and the list stays the one every estimate is made on; the returned
\* optimized_fuel is the best total of the sweep.
C24_FetchedOnce ==
    [][/\ pc = "fetch" =>
              /\ fetches = 0
              /\ original_fuel_calc = NoValue
              /\ fetches' = 1
       /\ pc # "fetch" =>
              /\ fetches = 1
              /\ fetches' = 1
              /\ weather_data' = weather_data
       /\ pc' = "sweep" =>
              original_fuel_calc' =
                  estimate_fuel_consumption(flight_plan, weather_data',
                                            flight_plan.cruise_altitude)
       /\ pc' = "returned" =>
              /\ optimized_fuel_calc' =
                     estimate_fuel_consumption(flight_plan, weather_data',
                                               best_altitude')
              /\ result'.optimized_fuel = best_altitude_fuel']_vars

\* a call returned on fetched readings with an altitude found by the sweep
C24_Witness ==
    /\ pc = "returned"
    /\ fetches = 1
    /\ weather_data # <<>>
    /\ result.optimized_altitude # flight_plan.cruise_altitude
    /\ result.optimized_fuel = best_altitude_fuel

\* C25: the optimized altitude differs from the requested one only with
\* fuel_savings > 0; with fuel_savings = 0 the altitude is unchanged, the
\* recommendation type is ROUTE_MODIFICATION and time_impact is 0.
C25_NoSavingsNoChange ==
    pc = "returned" =>
        /\ result.optimized_altitude # flight_plan.cruise_altitude
               => result.fuel_savings > 0
        /\ result.fuel_savings = 0 =>
               /\ result.optimized_altitude = flight_plan.cruise_altitude
               /\ result.recommendation_type = "ROUTE_MODIFICATION"
               /\ result.time_impact = 0

\* a result without savings, away from the optimal altitude
C25_Witness ==
    /\ pc = "returned"
    /\ result.fuel_savings = 0
    /\ result.original_fuel > 0
    /\ flight_plan.cruise_altitude
           # AircraftOf(flight_plan.aircraft_type).optimal_cruise_altitude
    /\ result.optimized_altitude = flight_plan.cruise_altitude

\* C26: a successful process_single_flight resets the workflow and runs
\* the five steps data ingestion, weather analysis, optimization compute,
\* recommendation generation, results publication in that order, each the
\* next_state of the output before it and the last output announcing
\* COMPLETED; the returned status is "completed" with completed_steps =
\* total_steps = 5 and a history of 10 entries, started and completed in turn.
C26_FiveStepsInOrder ==
    LET order == <<"DATA_INGESTION", "WEATHER_ANALYSIS", "OPTIMIZATION_COMPUTE",
                   "RECOMMENDATION_GENERATION", "RESULTS_PUBLICATION",
                   "COMPLETED">>
    IN  /\ (wf_pc = "step" /\ wf_step > 1) =>
               /\ wf_output.next_state = order[wf_step]
               /\ wf_output.step = order[wf_step - 1]
        /\ wf_pc = "returned" =>
               /\ wf_status.status = "completed"
               /\ wf_status.completed_steps = 5
               /\ wf_status.total_steps = 5
               /\ Len(wf_status.history) = 10
               /\ \A i \in 1..5 :
                      /\ wf_status.history[(2 * i) - 1]
                             = [state |-> order[i], status |-> "started"]
                      /\ wf_status.history[2 * i]
                             = [state |-> order[i], status |-> "completed"]

\* process_single_flight returned on an orchestrator that had been used
\* before
C26_Witness ==
    /\ wf_pc = "returned"
    /\ wf_calls = 2
    /\ wf_status.completed_steps = 5
    /\ Len(wf_history) = 10

\* a is an initial part of b
IsPrefix(a, b) == Len(a) <= Len(b) /\ SubSeq(b, 1, Len(a)) = a

\* the two entries the last execute_workflow_step call appended
LastCallRecorded ==
    wf_last_call.op = "execute" =>
        LET before == wf_last_call.before
        IN  /\ Len(wf_history) = before + 2
            /\ wf_history[before + 1]
                   = [state |-> wf_last_call.state, status |-> "started"]
            /\ wf_history[before + 2].state = wf_last_call.state
            /\ wf_history[before + 2].status
                   = (IF wf_last_call.raised THEN "failed" ELSE "completed")
            /\ wf_last_call.state \in {"INITIALIZED", "COMPLETED", "FAILED"}
                   => wf_last_call.raised

\* C27: every execute_workflow_step call appends a "started" entry and then
\* one entry for the same state, "completed" when it returns and "failed"
\* when it raises; INITIALIZED, COMPLETED and FAILED always fail and raise;
\* only reset_workflow removes or changes earlier entries.
C27_StartedThenOutcome ==
    /\ []LastCallRecorded
    /\ [][\/ IsPrefix(wf_history, wf_history')
          \/ wf_last_call'.op = "reset" /\ wf_history' = <<>>]_vars

\* a call for INITIALIZED on a history of two entries raised and left a
\* "failed" entry
C27_Witness ==
    /\ wf_last_call.op = "execute"
    /\ wf_last_call.state = "INITIALIZED"
    /\ wf_last_call.raised
    /\ wf_last_call.before = 2
    /\ wf_history[4] = [state |-> "INITIALIZED", status |-> "failed"]

\* C28: completed_steps of get_workflow_status never exceeds total_steps,
\* and the status is "not_started" exactly when the history is empty.
C28_CompletedWithinTotal ==
    LET status == get_workflow_status(wf_history)
    IN  /\ status.status = "not_started" <=> wf_history = <<>>
        /\ wf_history # <<>> => status.completed_steps <= status.total_steps

\* the priority create_recommendation_message is to give to a result with
\* the savings percentage sp (hundredths of a percent)
PriorityFor(sp) ==
    IF sp >= 500 THEN "high" ELSE IF sp >= 200 THEN "medium" ELSE "low"

\* the recommendation created last has the priority of its savings
CreatedPriority ==
    mcp_last_call.op = "create" =>
        mcp_recommendation.priority = PriorityFor(mcp_last_call.savings_percentage)

\* one entry with status "published" per call of publish_to_operations
OneEntryPerPublish ==
    /\ Len(mcp_message_history) = mcp_publish_calls
    /\ Len(mcp_sent) = mcp_publish_calls
    /\ \A i \in 1..Len(mcp_message_history) :
            mcp_message_history[i].status = "published"

IntegerPriority(priority) ==
    IF priority \in {"high", "HIGH"} THEN 9
    ELSE IF priority \in {"medium", "Medium"} THEN 6
    ELSE IF priority = "low" THEN 3
    ELSE 5

Succeeded(n) ==
    LET RECURSIVE upto(_)
        upto(k) == IF k = 0 THEN <<>>
                   ELSE IF batch_flights[k] = "ok"
                        THEN Append(upto(k - 1), k)
                        ELSE upto(k - 1)
    IN  upto(n)

\* C30: a flight whose plan creation or processing raises is logged and
\* skipped, every other flight is processed, the results are the
\* successfully processed flights in input order, and the batch run always
\* returns a report over them, also when no flight succeeds
C30_FailuresIsolated ==
    /\ batch_pc # "raised"
    /\ batch_pc = "loop" =>
            /\ [i \in 1..Len(batch_results) |-> batch_results[i].row]
                    = Succeeded(batch_next - 1)
            /\ Len(batch_results) + Len(batch_logged) = batch_next - 1
    /\ batch_pc = "returned" =>
            /\ batch_report.total_flights = Len(batch_results)
            /\ batch_report.flights = batch_results
            /\ [i \in 1..Len(batch_results) |-> batch_results[i].row]
                    = Succeeded(Len(batch_flights))

====
